---- MODULE Spec2Model ----
(***************************************************************************)
(* Model of crates/dpki/src/key_bundle.rs: the KeyBundle composition of a  *)
(* SigningKeyPair and an EncryptingKeyPair, its three constructors and the *)
(* get_id / sign / verify / encrypt / decrypt / is_same operations.        *)
(*                                                                         *)
(* The keypair module (crate::keypair) and the sodium primitives are not   *)
(* part of key_bundle.rs; they are modelled from the specification as      *)
(* deterministic toy primitives over byte sequences, with the success or   *)
(* failure of each primitive call left to the environment.                 *)
(***************************************************************************)
EXTENDS Integers, Sequences, FiniteSets, TLC

(* ------------------------------ bounds --------------------------------- *)
MaxMsgLen == 2
MaxByte == 1
MaxSeedByte == 2

(* ------------------------- program constants --------------------------- *)
SEED_SIZE == 32
SIGNATURE_SIZE == 64
ABYTES == 16
NONCEBYTES == 24
SIGN_PUBLICKEYBYTES == 32
SIGN_SECRETKEYBYTES == 64
KX_KEYBYTES == 32

(* ------------------------------ buffers -------------------------------- *)
\* SecBuf::with_insecure(n): a fixed-size buffer of n zero bytes
Zeroed(n) == [i \in 1..n |-> 0]

Filled(n, b) == [i \in 1..n |-> b]

RECURSIVE SumBytes(_)
SumBytes(s) == IF s = <<>> THEN 0 ELSE (s[1] + SumBytes(Tail(s))) % 256

\* a message of n bytes counting up from b
Counting(n, b) == [i \in 1..n |-> (b + i - 1) % 256]

Msgs == {Counting(n, b) : n \in 0..MaxMsgLen, b \in 0..MaxByte}

Seeds == {Filled(n, b) : n \in {SEED_SIZE - 1, SEED_SIZE, SEED_SIZE + 1}, b \in 1..MaxSeedByte}

GoodSeeds == {s \in Seeds : Len(s) = SEED_SIZE}

\* buffers around every length at which decrypt's size arithmetic changes
RawCipherLens ==
    {0, NONCEBYTES - ABYTES - 1, NONCEBYTES - ABYTES, NONCEBYTES - 1, NONCEBYTES,
     NONCEBYTES + ABYTES - 1, NONCEBYTES + ABYTES, NONCEBYTES + ABYTES + MaxMsgLen}

RawCiphers == {Filled(n, b) : n \in RawCipherLens, b \in 0..MaxByte}

RawSignatures == {Filled(n, b) : n \in {SIGNATURE_SIZE - 1, SIGNATURE_SIZE}, b \in 0..MaxByte}

(* --------------------- usize (64-bit) arithmetic ----------------------- *)
\* a usize is four 16-bit limbs, least significant first
Limb == 65536

USize(n) == <<n % Limb, (n \div Limb) % Limb, 0, 0>>

usize_sub(a, b) ==
    LET d1 == a[1] - b[1]
        b1 == IF d1 < 0 THEN 1 ELSE 0
        d2 == a[2] - b[2] - b1
        b2 == IF d2 < 0 THEN 1 ELSE 0
        d3 == a[3] - b[3] - b2
        b3 == IF d3 < 0 THEN 1 ELSE 0
        d4 == a[4] - b[4] - b3
        b4 == IF d4 < 0 THEN 1 ELSE 0
    IN [val |-> <<d1 + b1 * Limb, d2 + b2 * Limb, d3 + b3 * Limb, d4 + b4 * Limb>>,
        overflow |-> b4 = 1]

usize_add(a, b) ==
    LET s1 == a[1] + b[1]
        c1 == s1 \div Limb
        s2 == a[2] + b[2] + c1
        c2 == s2 \div Limb
        s3 == a[3] + b[3] + c2
        c3 == s3 \div Limb
        s4 == a[4] + b[4] + c3
        c4 == s4 \div Limb
    IN [val |-> <<s1 % Limb, s2 % Limb, s3 % Limb, s4 % Limb>>,
        overflow |-> c4 = 1]

\* a size the allocator can serve: at most isize::MAX, and within memory
Allocatable(u) == u[4] = 0 /\ u[3] = 0 /\ u[2] < 32768

ToInt(u) == u[1] + u[2] * Limb

(* --------------- keypair module (modelled from the spec) --------------- *)
\* a wrong-length seed that the primitive accepts is read as SEED_SIZE bytes:
\* cut when longer, zero-extended when shorter (the truncated-entropy case)
SeedBytes(seed) == [i \in 1..SEED_SIZE |-> IF i <= Len(seed) THEN seed[i] ELSE 0]

\* the two derivations are domain-separated: signing public keys have even
\* bytes, encryption public keys odd ones
SignPublicOf(seed) == [i \in 1..SIGN_PUBLICKEYBYTES |-> (SeedBytes(seed)[i] * 2) % 256]

\* the 64-byte signing secret key is the seed followed by the public key
SigningKeyPair_of(seed) ==
    [public |-> SignPublicOf(seed), private |-> SeedBytes(seed) \o SignPublicOf(seed)]

EncryptingKeyPair_of(seed) ==
    [public |-> [i \in 1..KX_KEYBYTES |-> (SeedBytes(seed)[i] * 2 + 1) % 256],
     private |-> [i \in 1..KX_KEYBYTES |-> (SeedBytes(seed)[i] * 5 + 2) % 256]]

\* outcome of one keypair derivation: prim_ok is the primitive's verdict
SigningKeyPair_new_from_seed(seed, prim_ok) ==
    IF prim_ok THEN [ok |-> TRUE, keys |-> SigningKeyPair_of(seed)]
    ELSE [ok |-> FALSE, keys |-> [public |-> <<>>, private |-> <<>>]]

EncryptingKeyPair_new_from_seed(seed, prim_ok) ==
    IF prim_ok THEN [ok |-> TRUE, keys |-> EncryptingKeyPair_of(seed)]
    ELSE [ok |-> FALSE, keys |-> [public |-> <<>>, private |-> <<>>]]

\* the message, framed so that distinct messages give distinct frames
Frame(m) == [i \in 1..SIGNATURE_SIZE |->
               IF i = 1 THEN Len(m) + 1
               ELSE IF i - 1 <= Len(m) THEN m[i - 1] + 1 ELSE 0]

\* detached signature: made with the secret key's second half
SigningKeyPair_sign(keys, data, prim_ok) ==
    IF prim_ok
    THEN LET frame == Frame(data)
         IN [ok |-> TRUE, data |-> data,
             out |-> [i \in 1..SIGNATURE_SIZE |->
                        (keys.private[SEED_SIZE + ((i - 1) % SIGN_PUBLICKEYBYTES) + 1]
                           + frame[i]) % 256]]
    ELSE [ok |-> FALSE, data |-> data, out |-> <<>>]

\* verification recomputes the signature from the public key alone
SigningKeyPair_verify(keys, data, signature) ==
    /\ Len(signature) = SIGNATURE_SIZE
    /\ Len(data) < SIGNATURE_SIZE
    /\ LET frame == Frame(data)
       IN \A i \in 1..SIGNATURE_SIZE :
             signature[i] = (keys.public[((i - 1) % SIGN_PUBLICKEYBYTES) + 1] + frame[i]) % 256

SigningKeyPair_is_same(a, b) == a.public = b.public /\ a.private = b.private

EncryptingKeyPair_is_same(a, b) == a.public = b.public /\ a.private = b.private

\* toy AEAD: keystream from the private key and the nonce, 16-byte tag
Keystream(keys, nonce, i) ==
    (keys.private[((i - 1) % KX_KEYBYTES) + 1] + nonce[((i - 1) % NONCEBYTES) + 1]) % 256

AeadBody(keys, nonce, m) == [i \in 1..Len(m) |-> (m[i] + Keystream(keys, nonce, i)) % 256]

AeadTag(keys, nonce, body) ==
    LET sum == SumBytes(body)
    IN [j \in 1..ABYTES |-> (sum + Len(body) + keys.private[j] + nonce[1] + 1) % 256]

\* writes n bytes, src, over the front of dst, leaving the rest of dst as it was
WriteFront(dst, src, n) == src \o SubSeq(dst, n + 1, Len(dst))

\* nonce, then the encrypted body, then the tag over it
Seal(keys, nonce, m) ==
    nonce \o AeadBody(keys, nonce, m) \o AeadTag(keys, nonce, AeadBody(keys, nonce, m))

\* the plaintext under a ciphertext of at least NONCEBYTES + ABYTES bytes; the
\* nonce is the ciphertext's first NONCEBYTES bytes, which Keystream indexes
Open(keys, cipher) ==
    [i \in 1..(Len(cipher) - NONCEBYTES - ABYTES) |->
        (cipher[NONCEBYTES + i] + 256 - Keystream(keys, cipher, i)) % 256]

\* fills the caller's buffer with nonce, body and tag; on failure leaves it
EncryptingKeyPair_encrypt(keys, data, out, nonce, prim_ok) ==
    IF prim_ok /\ Len(out) >= Len(data) + NONCEBYTES + ABYTES
    THEN [ok |-> TRUE, data |-> data,
          out |-> WriteFront(out, Seal(keys, nonce, data), Len(data) + NONCEBYTES + ABYTES)]
    ELSE [ok |-> FALSE, data |-> data, out |-> out]

\* authenticates, then writes the plaintext to the front of the caller's buffer
EncryptingKeyPair_decrypt(keys, cipher, out, prim_ok) ==
    IF /\ prim_ok
       /\ Len(cipher) >= NONCEBYTES + ABYTES
       /\ Len(out) >= Len(cipher) - NONCEBYTES - ABYTES
       /\ cipher = Seal(keys, SubSeq(cipher, 1, NONCEBYTES), Open(keys, cipher))
    THEN [ok |-> TRUE, cipher |-> cipher,
          out |-> WriteFront(out, Open(keys, cipher), Len(cipher) - NONCEBYTES - ABYTES)]
    ELSE [ok |-> FALSE, cipher |-> cipher, out |-> out]

(* ----------------------------- KeyBundle ------------------------------- *)
NoKeys == [public |-> <<>>, private |-> <<>>]

NoBundle == [sign_keys |-> NoKeys, enc_keys |-> NoKeys]

KeyBundle_new(sign_keys, enc_keys) ==
    [ret |-> "Ok", bundle |-> [sign_keys |-> sign_keys, enc_keys |-> enc_keys], log |-> <<>>]

\* the struct literal of both constructors: fields are evaluated in the order
\* written, and each `?` returns the error at once
KeyBundle_new_from_seed(seed_buf, sign_ok, enc_ok) ==
    LET s == SigningKeyPair_new_from_seed(seed_buf, sign_ok)
        e == EncryptingKeyPair_new_from_seed(seed_buf, enc_ok)
        sign_step == [keypair |-> "sign", seed |-> seed_buf, ok |-> s.ok]
        enc_step == [keypair |-> "enc", seed |-> seed_buf, ok |-> e.ok]
    IN IF ~s.ok THEN [ret |-> "Err", bundle |-> NoBundle, log |-> <<sign_step>>]
       ELSE IF ~e.ok THEN [ret |-> "Err", bundle |-> NoBundle, log |-> <<sign_step, enc_step>>]
       ELSE [ret |-> "Ok", bundle |-> [sign_keys |-> s.keys, enc_keys |-> e.keys],
             log |-> <<sign_step, enc_step>>]

\* new_from_seed_buf without its length assertion
KeyBundle_new_from_seed_buf_unchecked(seed_buf, sign_ok, enc_ok) ==
    KeyBundle_new_from_seed(seed_buf, sign_ok, enc_ok)

KeyBundle_new_from_seed_buf(seed_buf, sign_ok, enc_ok) ==
    IF Len(seed_buf) # SEED_SIZE
    THEN [ret |-> "abort", bundle |-> NoBundle, log |-> <<>>]
    ELSE LET s == SigningKeyPair_new_from_seed(seed_buf, sign_ok)
             e == EncryptingKeyPair_new_from_seed(seed_buf, enc_ok)
             sign_step == [keypair |-> "sign", seed |-> seed_buf, ok |-> s.ok]
             enc_step == [keypair |-> "enc", seed |-> seed_buf, ok |-> e.ok]
         IN IF ~s.ok THEN [ret |-> "Err", bundle |-> NoBundle, log |-> <<sign_step>>]
            ELSE IF ~e.ok THEN [ret |-> "Err", bundle |-> NoBundle, log |-> <<sign_step, enc_step>>]
            ELSE [ret |-> "Ok", bundle |-> [sign_keys |-> s.keys, enc_keys |-> e.keys],
                  log |-> <<sign_step, enc_step>>]

\* get_id handing out the encryption public key
KeyBundle_get_id_enc(self) == self.enc_keys.public

KeyBundle_get_id(self) == self.sign_keys.public

KeyBundle_sign(self, data, prim_ok) ==
    LET r == SigningKeyPair_sign(self.sign_keys, data, prim_ok)
    IN [ret |-> IF r.ok THEN "Ok" ELSE "Err", out |-> r.out, data |-> r.data, self |-> self]

\* encrypt's buffer size without room for the nonce
encrypt_size_no_nonce(data_len) == usize_add(USize(data_len), USize(ABYTES))

\* data.len() + ABYTES + NONCEBYTES, in usize
encrypt_size(data_len) ==
    LET a == usize_add(USize(data_len), USize(ABYTES))
        b == usize_add(a.val, USize(NONCEBYTES))
    IN [val |-> b.val, overflow |-> a.overflow \/ b.overflow]

\* decrypt's buffer size without the added tag size
decrypt_size_no_tag(cipher_len) == usize_sub(USize(cipher_len), USize(NONCEBYTES))

\* (cipher.len() - NONCEBYTES) + ABYTES, in usize
decrypt_size(cipher_len) ==
    LET a == usize_sub(USize(cipher_len), USize(NONCEBYTES))
        b == usize_add(a.val, USize(ABYTES))
    IN [val |-> b.val, overflow |-> a.overflow \/ b.overflow]

\* checks: the build traps on integer overflow (debug) instead of wrapping
KeyBundle_encrypt(self, data, nonce, prim_ok, checks) ==
    LET size == encrypt_size(Len(data))
    IN IF (size.overflow /\ checks) \/ ~Allocatable(size.val)
       THEN [ret |-> "abort", out |-> <<>>, data |-> data, prim |-> "none",
             overflow |-> size.overflow, self |-> self]
       ELSE LET r == EncryptingKeyPair_encrypt(self.enc_keys, data, Zeroed(ToInt(size.val)),
                                               nonce, prim_ok)
            IN [ret |-> "Ok", out |-> r.out, data |-> r.data,
                prim |-> IF r.ok THEN "ok" ELSE "fail",
                overflow |-> size.overflow, self |-> self]

KeyBundle_decrypt(self, cipher, prim_ok, checks) ==
    LET size == decrypt_size(Len(cipher))
    IN IF (size.overflow /\ checks) \/ ~Allocatable(size.val)
       THEN [ret |-> "abort", out |-> <<>>, data |-> cipher, prim |-> "none",
             overflow |-> size.overflow, self |-> self]
       ELSE LET r == EncryptingKeyPair_decrypt(self.enc_keys, cipher, Zeroed(ToInt(size.val)),
                                               prim_ok)
            IN [ret |-> "Ok", out |-> r.out, data |-> r.cipher,
                prim |-> IF r.ok THEN "ok" ELSE "fail",
                overflow |-> size.overflow, self |-> self]

\* verify with its two buffers passed in the wrong order
KeyBundle_verify_swapped(self, data, signature) ==
    SigningKeyPair_verify(self.sign_keys, signature, data)

KeyBundle_verify(self, data, signature) ==
    SigningKeyPair_verify(self.sign_keys, data, signature)

\* is_same comparing the signing keypairs only
KeyBundle_is_same_sign_only(self, other) ==
    SigningKeyPair_is_same(self.sign_keys, other.sign_keys)

KeyBundle_is_same(self, other) ==
    /\ SigningKeyPair_is_same(self.sign_keys, other.sign_keys)
    /\ EncryptingKeyPair_is_same(self.enc_keys, other.enc_keys)

(* ------------------------------- state --------------------------------- *)
VARIABLES
    bundle,           \* the KeyBundle under test, NoBundle before construction
    id_at_new,        \* get_id() of the bundle right after its construction
    last,             \* the last call: its arguments, what it returned, what it left
    aborted           \* the process was aborted by a panic

vars == <<bundle, id_at_new, last, aborted>>

NoCall == [op |-> "none", self |-> NoBundle, other |-> NoBundle, other_after |-> NoBundle,
           data |-> <<>>, data_after |-> <<>>, sig |-> <<>>, ret |-> "none", out |-> <<>>,
           prim |-> "none", overflow |-> FALSE, log |-> <<>>]

\* every bundle a caller can hold: keypairs of any two seeds, composed by new
Bundles ==
    {KeyBundle_new(SigningKeyPair_of(s1), EncryptingKeyPair_of(s2)).bundle :
        s1 \in Seeds, s2 \in Seeds}

\* signatures over m made by the key of every well-formed seed
MadeSignatures(m) ==
    {SigningKeyPair_sign(SigningKeyPair_of(s), m, TRUE).out : s \in GoodSeeds}

Init ==
    /\ bundle = NoBundle
    /\ id_at_new = <<>>
    /\ last = NoCall
    /\ aborted = FALSE

\* the builds that differ on a size computation: one that traps on integer
\* overflow (debug) and one that wraps (release), when the computation overflows
Builds(size) == IF size.overflow THEN BOOLEAN ELSE {FALSE}

\* a constructor call: the caller holds the bundle when the call returns Ok
Construct(op, seed, r) ==
    /\ bundle' = IF r.ret = "Ok" THEN r.bundle ELSE bundle
    /\ id_at_new' = IF r.ret = "Ok" THEN KeyBundle_get_id(r.bundle) ELSE id_at_new
    /\ last' = [NoCall EXCEPT !.op = op, !.data = seed, !.data_after = seed,
                              !.ret = r.ret, !.log = r.log]
    /\ aborted' = (r.ret = "abort")

New ==
    /\ ~aborted /\ bundle = NoBundle
    /\ \E s1 \in GoodSeeds, s2 \in GoodSeeds :
       \E r \in {KeyBundle_new(SigningKeyPair_new_from_seed(s1, TRUE).keys,
                               EncryptingKeyPair_new_from_seed(s2, TRUE).keys)} :
          Construct("new", <<>>, r)

NewFromSeed ==
    /\ ~aborted /\ bundle = NoBundle
    /\ \E seed \in Seeds, sign_ok \in BOOLEAN, enc_ok \in BOOLEAN :
       \E r \in {KeyBundle_new_from_seed(seed, sign_ok, enc_ok)} :
          Construct("new_from_seed", seed, r)

NewFromSeedBuf ==
    /\ ~aborted /\ bundle = NoBundle
    /\ \E seed \in Seeds, sign_ok \in BOOLEAN, enc_ok \in BOOLEAN :
       \E r \in {KeyBundle_new_from_seed_buf(seed, sign_ok, enc_ok)} :
          Construct("new_from_seed_buf", seed, r)

GetId ==
    /\ ~aborted /\ bundle # NoBundle
    /\ last' = [NoCall EXCEPT !.op = "get_id", !.self = bundle, !.ret = "Ok",
                              !.out = KeyBundle_get_id(bundle)]
    /\ UNCHANGED <<bundle, id_at_new, aborted>>

Sign ==
    /\ ~aborted /\ bundle # NoBundle
    /\ \E m \in Msgs, prim_ok \in BOOLEAN :
       \E r \in {KeyBundle_sign(bundle, m, prim_ok)} :
          /\ bundle' = r.self
          /\ last' = [NoCall EXCEPT !.op = "sign", !.self = bundle, !.data = m,
                                    !.data_after = r.data, !.ret = r.ret, !.out = r.out,
                                    !.prim = IF prim_ok THEN "ok" ELSE "fail"]
    /\ UNCHANGED <<id_at_new, aborted>>

DoVerify(m, signature) ==
    /\ last' = [NoCall EXCEPT !.op = "verify", !.self = bundle, !.data = m, !.data_after = m,
                              !.sig = signature,
                              !.ret = IF KeyBundle_verify(bundle, m, signature)
                                      THEN "true" ELSE "false"]
    /\ UNCHANGED <<bundle, id_at_new, aborted>>

\* verify a signature that sign has just returned, against any message
VerifySigned ==
    /\ ~aborted /\ bundle # NoBundle
    /\ last.op = "sign" /\ last.ret = "Ok"
    /\ \E m \in Msgs : DoVerify(m, last.out)

\* verify any other buffer as the signature
VerifyRaw ==
    /\ ~aborted /\ bundle # NoBundle
    /\ \E m \in Msgs :
       \E signature \in RawSignatures \cup MadeSignatures(m) : DoVerify(m, signature)

Encrypt ==
    /\ ~aborted /\ bundle # NoBundle
    /\ \E m \in Msgs, n \in 0..MaxByte, prim_ok \in BOOLEAN :
       \E checks \in Builds(encrypt_size(Len(m))) :
       \E r \in {KeyBundle_encrypt(bundle, m, Filled(NONCEBYTES, n), prim_ok, checks)} :
          /\ bundle' = r.self
          /\ last' = [NoCall EXCEPT !.op = "encrypt", !.self = bundle, !.data = m,
                                    !.data_after = r.data, !.ret = r.ret, !.out = r.out,
                                    !.prim = r.prim, !.overflow = r.overflow]
          /\ aborted' = (r.ret = "abort")
    /\ UNCHANGED id_at_new

DoDecrypt(cipher, prim_ok) ==
    \E checks \in Builds(decrypt_size(Len(cipher))) :
    \E r \in {KeyBundle_decrypt(bundle, cipher, prim_ok, checks)} :
       /\ bundle' = r.self
       /\ last' = [NoCall EXCEPT !.op = "decrypt", !.self = bundle, !.data = cipher,
                                 !.data_after = r.data, !.ret = r.ret, !.out = r.out,
                                 !.prim = r.prim, !.overflow = r.overflow]
       /\ aborted' = (r.ret = "abort")
       /\ UNCHANGED id_at_new

\* decrypt the buffer that encrypt has just returned
DecryptEncrypted ==
    /\ ~aborted /\ bundle # NoBundle
    /\ last.op = "encrypt" /\ last.ret = "Ok"
    /\ \E prim_ok \in BOOLEAN : DoDecrypt(last.out, prim_ok)

\* decrypt an arbitrary buffer of any length
DecryptRaw ==
    /\ ~aborted /\ bundle # NoBundle
    /\ \E cipher \in RawCiphers, prim_ok \in BOOLEAN : DoDecrypt(cipher, prim_ok)

IsSame ==
    /\ ~aborted /\ bundle # NoBundle
    /\ \E other \in Bundles :
          last' = [NoCall EXCEPT !.op = "is_same", !.self = bundle, !.other = other,
                                 !.other_after = other,
                                 !.ret = IF KeyBundle_is_same(bundle, other)
                                         THEN "true" ELSE "false"]
    /\ UNCHANGED <<bundle, id_at_new, aborted>>

Next ==
    \/ New
    \/ NewFromSeed
    \/ NewFromSeedBuf
    \/ GetId
    \/ Sign
    \/ VerifySigned
    \/ VerifyRaw
    \/ Encrypt
    \/ DecryptEncrypted
    \/ DecryptRaw
    \/ IsSame

Spec == Init /\ [][Next]_vars

(* ------------------------------ properties ----------------------------- *)
\* C1: new_from_seed returns a derivation error and constructs no bundle
\* whenever the seed buffer is not exactly SEED_SIZE bytes long.
C1_NewFromSeedRejectsWrongLength ==
    (last.op = "new_from_seed" /\ Len(last.data) # SEED_SIZE)
        => (last.ret = "Err" /\ bundle = NoBundle)

\* C2: decrypting, on the same bundle, the buffer encrypt returned for a
\* message m returns Ok with a buffer equal to m in length and content.
C2_RoundTrip ==
    [][(/\ last.op = "encrypt" /\ last.ret = "Ok"
        /\ last'.op = "decrypt" /\ last'.self = last.self /\ last'.data = last.out)
          => (last'.ret = "Ok" /\ last'.out = last.data)]_vars

\* C3: when the primitive call made by encrypt or decrypt fails, the
\* operation returns an error, never Ok with an output buffer.
C3_PrimitiveFailureIsReturned ==
    (last.op \in {"encrypt", "decrypt"} /\ last.prim = "fail") => last.ret = "Err"

\* C4: only new_from_seed_buf can abort the process; decrypt returns a typed
\* result for a ciphertext of any length, without aborting and without its
\* size arithmetic wrapping around.
C4_OnlySeedBufAborts ==
    /\ aborted => last.op = "new_from_seed_buf"
    /\ last.op = "decrypt" => (last.ret \in {"Ok", "Err"} /\ ~last.overflow)

\* C5 as stated: the plaintext buffer decrypt returns for an accepted
\* ciphertext c has length len(c) - NONCEBYTES.
C5_PlaintextLenAsStated ==
    (last.op = "decrypt" /\ last.ret = "Ok")
        => Len(last.out) = Len(last.data) - NONCEBYTES

\* C5 as amended: the buffer decrypt returns for an accepted ciphertext c has
\* length len(c) - NONCEBYTES + ABYTES.
C5_PlaintextLen ==
    (last.op = "decrypt" /\ last.ret = "Ok")
        => Len(last.out) = Len(last.data) - NONCEBYTES + ABYTES

C5_Witness ==
    /\ last.op = "decrypt" /\ last.ret = "Ok" /\ last.prim = "ok"
    /\ Len(last.data) > NONCEBYTES + ABYTES

\* C6: verify(m, s) is a plain boolean: true exactly when s is the signature
\* the bundle's sign makes for m, false for a signature over another message
\* and for any other buffer; sign leaves m unchanged.
C6_SignVerify ==
    /\ last.op = "verify" =>
          /\ last.ret \in {"true", "false"}
          /\ ~aborted
          /\ last.ret = "true" <=> last.sig = KeyBundle_sign(last.self, last.data, TRUE).out
    /\ last.op = "sign" => last.data_after = last.data

C6_Witness ==
    /\ last.op = "verify" /\ last.ret = "true"
    /\ Len(last.data) > 0 /\ Len(last.sig) = SIGNATURE_SIZE

\* C7: is_same is true exactly when both the signing keypairs and the
\* encryption keypairs of the two bundles are the same, and it changes
\* neither bundle.
C7_IsSame ==
    last.op = "is_same" =>
        /\ last.ret = "true" <=> (/\ last.self.sign_keys = last.other.sign_keys
                                  /\ last.self.enc_keys = last.other.enc_keys)
        /\ bundle = last.self
        /\ last.other_after = last.other

C7_Witness ==
    /\ last.op = "is_same" /\ last.ret = "false"
    /\ last.self.sign_keys = last.other.sign_keys
    /\ last.self.enc_keys # last.other.enc_keys

\* C8: encrypt(m) returns a buffer of exactly len(m) + ABYTES + NONCEBYTES
\* bytes and leaves the length of m unchanged.
C8_CiphertextSize ==
    last.op = "encrypt" =>
        /\ last.ret = "Ok"
        /\ Len(last.out) = Len(last.data) + ABYTES + NONCEBYTES
        /\ Len(last.data_after) = Len(last.data)

C8_Witness ==
    last.op = "encrypt" /\ last.ret = "Ok" /\ last.prim = "ok" /\ Len(last.data) = MaxMsgLen

\* C9: new_from_seed_buf aborts, before any derivation, for a seed buffer that
\* is not SEED_SIZE bytes long; otherwise it derives the signing keypair and
\* then the encryption keypair from the same buffer, and returns Err without
\* attempting the encryption derivation when the signing derivation fails.
C9_SeedBufContract ==
    last.op = "new_from_seed_buf" =>
        IF Len(last.data) # SEED_SIZE
        THEN last.ret = "abort" /\ aborted /\ last.log = <<>> /\ bundle = NoBundle
        ELSE /\ last.ret \in {"Ok", "Err"} /\ ~aborted
             /\ Len(last.log) >= 1
             /\ last.log[1].keypair = "sign" /\ last.log[1].seed = last.data
             /\ ~last.log[1].ok => (last.ret = "Err" /\ Len(last.log) = 1)
             /\ last.log[1].ok =>
                   /\ Len(last.log) = 2
                   /\ last.log[2].keypair = "enc" /\ last.log[2].seed = last.data
                   /\ last.ret = "Ok" <=> last.log[2].ok

C9_Witness ==
    last.op = "new_from_seed_buf" /\ Len(last.data) # SEED_SIZE /\ last.ret = "abort"

\* C10: get_id returns exactly the signing public key, never the encryption
\* public key, and the identifier of a bundle stays what it was right after
\* construction whatever operations are called on the bundle.
C10_IdStable ==
    /\ bundle # NoBundle => KeyBundle_get_id(bundle) = id_at_new
    /\ last.op = "get_id" =>
          /\ last.out = bundle.sign_keys.public
          /\ last.out # bundle.enc_keys.public
          /\ Len(last.out) = SIGN_PUBLICKEYBYTES
          /\ last.out = id_at_new

C10_Witness ==
    last.op = "get_id" /\ last.out = id_at_new /\ id_at_new # <<>>

====
